---------------------------- MODULE Spec2Model ----------------------------
(***************************************************************************)
(* Model of src/main.py: the KakaoTalk complaint skill server.             *)
(*                                                                         *)
(* Texts are sequences of tokens; Python's substring test `k in text` is   *)
(* the token test Contains(text, k).  Timestamps written by the code are   *)
(* kept only where a claim can observe them (paused_at); the turn and log  *)
(* timestamps are left out of the stored records.                          *)
(*                                                                         *)
(* Every try/except of the code is a branch of the model: a load or save   *)
(* of a store either succeeds or raises, chosen per call.  A failed save   *)
(* leaves the file as it was.                                              *)
(*                                                                         *)
(* The handlers run on one asyncio event loop.  get_ai_response contains   *)
(* no await (the SDK call is the blocking client), so a handler step is    *)
(* atomic up to its next await: the deferred job has two steps, one up to  *)
(* the awaited POST and one for the POST's outcome.                        *)
(***************************************************************************)
EXTENDS Integers, Sequences, FiniteSets, TLC

(* ------------------------------ bounds -------------------------------- *)

\* processed (non-empty, non-paused) requests in one run
MaxRequests == 2
\* one-time callback addresses the platform hands out in one run
MaxCallbacks == 1
\* turns a sender's stored history holds at the start of SpecContext
MaxHistory == 6

(* ---------------------------- input sets ------------------------------ *)

\* body["userRequest"]["user"]["id"]; "unknown" is also the code's default
Senders == {"user1", "unknown"}

\* tokens standing for the eight keywords of get_ai_response's list
KEYWORDS == {"nusu", "muri_sae", "chimsu", "hwajae", "buri", "yeongi", "gaseu", "jeongjeon"}

\* the literal marker token searched in the generated text
MARKER == "[urgent]"

\* utterances the platform sends: empty, plain, with a keyword
Utterances == {<<>>, <<"hello">>, <<"hello", "nusu">>}

\* texts the external generation service returns
AiTexts == {<<"ok">>, <<"[urgent]", "ok">>}

\* callback addresses: 0 stands for the empty string
CallbackUrls == 1..MaxCallbacks
NoUrl == 0

\* clock readings datetime.now() gives to paused_at: an earlier and a later one
Times == {1, 2}
\* a clock that stands still over the run
OneTime == {1}

(* --------------------------- fixed strings ---------------------------- *)

MAX_AI_CONTEXT == 5

PROMPT_TEXT == <<"what_can_i_help">>
WAIT_TEXT == <<"please_wait">>
APOLOGY_TEXT == <<"sorry_temporary_error">>

(* ----------------------------- variables ------------------------------ *)

VARIABLES
  chat_history,   \* chat_history.json: user_id -> sequence of turns
  complaint_log,  \* complaint_log.json: sequence of entries
  paused_users,   \* paused_users.json: user_id -> [paused_at]
  jobs,           \* tasks made by asyncio.create_task, by callback address
  processed,      \* requests that passed the empty and the pause check
  cleared,        \* senders for whom DELETE /admin/history was called with no
                  \* request of theirs processed since, each with the number
                  \* of turns stored when it was called
  resumed,        \* senders for whom POST /admin/resume was called while they
                  \* were stored as paused, with no POST /admin/pause since
  last            \* the operation that was performed last, and its outcome

vars == <<chat_history, complaint_log, paused_users, jobs, processed, cleared, resumed, last>>

(* --------------------------- dict helpers ----------------------------- *)

EmptyDict == [x \in {} |-> <<>>]

\* d.get(k, default)
DictGet(d, k, default) == IF k \in DOMAIN d THEN d[k] ELSE default

\* d[k] = v
DictSet(d, k, v) == [x \in (DOMAIN d) \cup {k} |-> IF x = k THEN v ELSE d[x]]

\* del d[k]
DictDel(d, k) == [x \in (DOMAIN d) \ {k} |-> d[x]]

\* k in text
Contains(text, k) == \E i \in DOMAIN text : text[i] = k

\* seq[-n:] for n > 0
LastN(seq, n) == IF Len(seq) <= n THEN seq ELSE SubSeq(seq, Len(seq) - n + 1, Len(seq))

(* ------------------------- chat history store ------------------------- *)

\* load_chat_history: the file's content, or {} when reading raises
load_chat_history(file, loadOk) == IF loadOk THEN file ELSE EmptyDict

\* save_chat_history: the file after the call
save_chat_history(file, history, saveOk) == IF saveOk THEN history ELSE file

RECURSIVE TurnsToMessages(_)
TurnsToMessages(turns) ==
  IF turns = <<>> THEN <<>>
  ELSE << [role |-> "user", content |-> Head(turns).user],
          [role |-> "assistant", content |-> Head(turns).assistant] >>
       \o TurnsToMessages(Tail(turns))

\* get_user_messages without its slice
RecentTurnsAll(user_history) == user_history

\* the slice of get_user_messages
RecentTurns(user_history) == LastN(user_history, MAX_AI_CONTEXT)

get_user_messages(file, loadOk, user_id) ==
  TurnsToMessages(RecentTurns(DictGet(load_chat_history(file, loadOk), user_id, <<>>)))

\* add_to_history: the file after the call
add_to_history(file, loadOk, saveOk, user_id, user_message, ai_response) ==
  LET history == load_chat_history(file, loadOk)
      turn == [user |-> user_message, assistant |-> ai_response]
      updated == DictSet(history, user_id, Append(DictGet(history, user_id, <<>>), turn))
  IN save_chat_history(file, updated, saveOk)

(* -------------------------- paused-user store ------------------------- *)

load_paused_users(file, loadOk) == IF loadOk THEN file ELSE EmptyDict

save_paused_users(file, paused, saveOk) == IF saveOk THEN paused ELSE file

is_user_paused(file, loadOk, user_id) == user_id \in DOMAIN load_paused_users(file, loadOk)

\* pause_user written as a switch: a second call takes the sender out again
pause_user_toggle(file, loadOk, saveOk, user_id, now) ==
  LET paused == load_paused_users(file, loadOk)
  IN IF user_id \in DOMAIN paused
     THEN save_paused_users(file, DictDel(paused, user_id), saveOk)
     ELSE save_paused_users(file, DictSet(paused, user_id, [paused_at |-> now]), saveOk)

\* pause_user: the file after the call
pause_user(file, loadOk, saveOk, user_id, now) ==
  save_paused_users(file,
                    DictSet(load_paused_users(file, loadOk), user_id, [paused_at |-> now]),
                    saveOk)

\* resume_user: the file after the call
resume_user(file, loadOk, saveOk, user_id) ==
  LET paused == load_paused_users(file, loadOk)
  IN IF user_id \in DOMAIN paused
     THEN save_paused_users(file, DictDel(paused, user_id), saveOk)
     ELSE file

(* -------------------------- reply generation -------------------------- *)

\* the urgency test looking at the generated text only
IsUrgentMarkerOnly(ai_text, user_message) == Contains(ai_text, MARKER)

\* the urgency test of get_ai_response
IsUrgent(ai_text, user_message) ==
  Contains(ai_text, MARKER) \/ \E keyword \in KEYWORDS : Contains(user_message, keyword)

\* the except branch flagging every failed request as urgent
FallbackResultUrgent(user_id) ==
  [text |-> APOLOGY_TEXT, is_urgent |-> TRUE, user_id |-> user_id]

\* the value of get_ai_response's except branch
FallbackResult(user_id) ==
  [text |-> APOLOGY_TEXT, is_urgent |-> FALSE, user_id |-> user_id]

\* get_ai_response with a history store whose failed read or write raises
\* into the except branch
get_ai_response_strict(file, user_message, user_id, e) ==
  LET messages == get_user_messages(file, e.context_load, user_id)
                    \o << [role |-> "user", content |-> user_message] >>
  IN IF e.generation /\ e.history_load /\ e.history_save
     THEN [result |-> [text |-> e.ai_text,
                       is_urgent |-> IsUrgent(e.ai_text, user_message),
                       user_id |-> user_id],
           messages |-> messages,
           history |-> add_to_history(file, TRUE, TRUE, user_id, user_message, e.ai_text)]
     ELSE [result |-> FallbackResult(user_id),
           messages |-> messages,
           history |-> file]

\* get_ai_response: the returned dict, the messages given to the service
\* and the history file after the call.  e holds what the environment
\* does during the call: e.generation is FALSE when the try block raises
\* before add_to_history, e.ai_text is the text the service returns, the
\* other fields are FALSE when that store access raises.
get_ai_response(file, user_message, user_id, e) ==
  LET messages == get_user_messages(file, e.context_load, user_id)
                    \o << [role |-> "user", content |-> user_message] >>
  IN IF e.generation
     THEN [result |-> [text |-> e.ai_text,
                       is_urgent |-> IsUrgent(e.ai_text, user_message),
                       user_id |-> user_id],
           messages |-> messages,
           history |-> add_to_history(file, e.history_load, e.history_save, user_id,
                                      user_message, e.ai_text)]
     ELSE [result |-> FallbackResult(user_id),
           messages |-> messages,
           history |-> file]

(* ---------------------------- complaint log --------------------------- *)

LogStatus(is_urgent) == IF is_urgent THEN "received" ELSE "auto"

\* log_complaint keeping only the entries of urgent requests
log_complaint_urgent_only(file, logOk, user_id, message, response, is_urgent) ==
  IF logOk /\ is_urgent
  THEN Append(file, [user_id |-> user_id, message |-> message, response |-> response,
                     is_urgent |-> is_urgent, status |-> "received"])
  ELSE file

\* log_complaint appending to a list that already holds the new entry
log_complaint_twice(file, logOk, user_id, message, response, is_urgent) ==
  LET entry == [user_id |-> user_id, message |-> message, response |-> response,
                is_urgent |-> is_urgent, status |-> IF is_urgent THEN "received" ELSE "auto"]
  IN IF logOk THEN Append(Append(file, entry), entry) ELSE file

\* log_complaint: the file after the call; logOk is FALSE when its try block
\* raises, which leaves the file alone
log_complaint(file, logOk, user_id, message, response, is_urgent) ==
  IF logOk
  THEN Append(file, [user_id |-> user_id,
                     message |-> message,
                     response |-> response,
                     is_urgent |-> is_urgent,
                     status |-> LogStatus(is_urgent)])
  ELSE file

(* ------------------------- request envelope --------------------------- *)

\* body.get("userRequest", {}).get("utterance", "")
BodyUtterance(body) == DictGet(body, "utterance", <<>>)

\* body.get("userRequest", {}).get("user", {}).get("id", "unknown")
BodyUserId(body) == DictGet(body, "id", "unknown")

\* body.get("userRequest", {}).get("callbackUrl", "")
BodyCallbackUrl(body) == DictGet(body, "callbackUrl", NoUrl)

\* an envelope on which the chain of .get calls raises: the body is not a
\* JSON object, or its userRequest or its user is not an object; the body
\* carries the name of the part that has the wrong type
Malformed(body) == "malformed" \in DOMAIN body

\* make_kakao_response(text) without quick replies: the outputs of the template
make_kakao_response(text) == << text >>

\* Branch with the pause check moved before the empty-utterance check
BranchPauseFirst(user_message, paused, callback_url) ==
  IF paused THEN "silent"
  ELSE IF user_message = <<>> THEN "prompt"
  ELSE IF callback_url # NoUrl THEN "callback"
  ELSE "direct"

\* the branch kakao_skill_complaint takes
Branch(user_message, paused, callback_url) ==
  IF user_message = <<>> THEN "prompt"
  ELSE IF paused THEN "silent"
  ELSE IF callback_url # NoUrl THEN "callback"
  ELSE "direct"

(* ------------------------------- jobs --------------------------------- *)

IdleJob == [pc |-> "unused", user_id |-> "", user_message |-> <<>>, text |-> <<>>, posts |-> 0]

\* a task once its coroutine has returned
DoneJob == [pc |-> "done", user_id |-> "", user_message |-> <<>>, text |-> <<>>, posts |-> 1]

UnusedUrls == {u \in CallbackUrls : jobs[u].pc = "unused"}

\* the platform issues a new one-time address with each request
FreshUrls == {u \in UnusedUrls : \A v \in UnusedUrls : u <= v}

(* ------------------------- the last operation ------------------------- *)

NoResult == [text |-> <<>>, is_urgent |-> FALSE, user_id |-> ""]

Quiet ==
  [op |-> "none", user_id |-> "", user_message |-> <<>>, callback_url |-> NoUrl,
   outputs |-> <<>>, useCallback |-> FALSE, gen |-> "none", ai |-> NoResult,
   messages |-> <<>>, failed |-> {}, total |-> 0, listing |-> <<>>, error |-> FALSE]

\* the calls that can raise
FaultKinds ==
  {"paused_load", "paused_save", "context_load", "generation", "history_load",
   "history_save", "log_write", "post"}

\* the names of the calls of an operation that raised
Failed(e) == {k \in FaultKinds \cap DOMAIN e : ~e[k]}

\* the environment of a request that does not reach get_ai_response
NoGen ==
  [context_load |-> TRUE, generation |-> TRUE, ai_text |-> <<>>, history_load |-> TRUE,
   history_save |-> TRUE, log_write |-> TRUE]

(* ------------------------------- Init --------------------------------- *)

Init ==
  /\ chat_history = EmptyDict
  /\ complaint_log = <<>>
  /\ paused_users = EmptyDict
  /\ jobs = [u \in CallbackUrls |-> IdleJob]
  /\ processed = 0
  /\ cleared = EmptyDict
  /\ resumed = {}
  /\ last = Quiet

(* ------------------------ POST /skill/complaint ----------------------- *)

\* the synchronous tail of kakao_skill_complaint: get_ai_response,
\* log_complaint, make_kakao_response
DirectReply(user_message, user_id, callback_url, pausedLoadOk, e) ==
  LET r == get_ai_response(chat_history, user_message, user_id, e)
  IN /\ processed < MaxRequests
     /\ processed' = processed + 1
     /\ chat_history' = r.history
     /\ complaint_log' = log_complaint(complaint_log, e.log_write, user_id, user_message,
                                       r.result.text, r.result.is_urgent)
     /\ cleared' = DictDel(cleared, user_id)
     /\ last' = [Quiet EXCEPT !.op = "complaint", !.user_id = user_id,
                              !.user_message = user_message, !.callback_url = callback_url,
                              !.outputs = make_kakao_response(r.result.text),
                              !.gen = IF e.generation THEN "ok" ELSE "failed",
                              !.ai = r.result, !.messages = r.messages,
                              !.failed = Failed(e) \cup Failed([paused_load |-> pausedLoadOk])]
     /\ UNCHANGED <<paused_users, jobs, resumed>>

\* asyncio.create_task(process_and_callback(...)) and the immediate reply
ScheduleCallback(user_message, user_id, callback_url, pausedLoadOk) ==
  /\ processed < MaxRequests
  /\ processed' = processed + 1
  /\ jobs' = [jobs EXCEPT ![callback_url] =
                [pc |-> "scheduled", user_id |-> user_id, user_message |-> user_message,
                 text |-> <<>>, posts |-> 0]]
  /\ last' = [Quiet EXCEPT !.op = "complaint", !.user_id = user_id,
                           !.user_message = user_message, !.callback_url = callback_url,
                           !.outputs = << WAIT_TEXT >>, !.useCallback = TRUE,
                           !.failed = Failed([paused_load |-> pausedLoadOk])]
  /\ UNCHANGED <<chat_history, complaint_log, paused_users, cleared, resumed>>

\* the two early returns of kakao_skill_complaint; the paused one comes
\* after asyncio.sleep(6), which reads and writes nothing
EarlyReturn(user_message, user_id, callback_url, outputs, pausedLoadOk) ==
  /\ last' = [Quiet EXCEPT !.op = "complaint", !.user_id = user_id,
                           !.user_message = user_message, !.callback_url = callback_url,
                           !.outputs = outputs,
                           !.failed = Failed([paused_load |-> pausedLoadOk])]
  /\ UNCHANGED <<chat_history, complaint_log, paused_users, jobs, processed, cleared, resumed>>

\* request.json() or a .get of lines 362-364 raises: no handler catches it
\* and the framework answers with an internal server error
Unhandled(body) ==
  /\ last' = [Quiet EXCEPT !.op = "complaint", !.error = TRUE]
  /\ UNCHANGED <<chat_history, complaint_log, paused_users, jobs, processed, cleared, resumed>>

kakao_skill_complaint(body, pausedLoadOk, e) ==
  LET user_message == BodyUtterance(body)
      user_id == BodyUserId(body)
      callback_url == BodyCallbackUrl(body)
      paused == is_user_paused(paused_users, pausedLoadOk, user_id)
      branch == Branch(user_message, paused, callback_url)
  IN CASE Malformed(body) -> Unhandled(body)
       [] ~Malformed(body) /\ branch = "prompt" ->
            EarlyReturn(user_message, user_id, callback_url,
                        make_kakao_response(PROMPT_TEXT), TRUE)
       [] ~Malformed(body) /\ branch = "silent" ->
            EarlyReturn(user_message, user_id, callback_url, <<>>, pausedLoadOk)
       [] ~Malformed(body) /\ branch = "callback" ->
            ScheduleCallback(user_message, user_id, callback_url, pausedLoadOk)
       [] ~Malformed(body) /\ branch = "direct" ->
            DirectReply(user_message, user_id, callback_url, pausedLoadOk, e)

(* ------------------------ process_and_callback ------------------------ *)

\* the task calling get_ai_response again for as long as generation fails
process_and_callback_regenerate(url, e) ==
  LET job == jobs[url]
      r == get_ai_response(chat_history, job.user_message, job.user_id, e)
  IN /\ job.pc = "scheduled"
     /\ chat_history' = r.history
     /\ complaint_log' = IF e.generation
                         THEN log_complaint(complaint_log, e.log_write, job.user_id,
                                            job.user_message, r.result.text, r.result.is_urgent)
                         ELSE complaint_log
     /\ jobs' = IF e.generation
                THEN [jobs EXCEPT ![url] = [job EXCEPT !.pc = "posting", !.text = r.result.text]]
                ELSE jobs
     /\ cleared' = DictDel(cleared, job.user_id)
     /\ last' = [Quiet EXCEPT !.op = "job", !.user_id = job.user_id,
                              !.user_message = job.user_message, !.callback_url = url,
                              !.gen = IF e.generation THEN "ok" ELSE "failed",
                              !.ai = r.result, !.messages = r.messages,
                              !.failed = Failed(e)]
     /\ UNCHANGED <<paused_users, processed, resumed>>

\* the task building its payload and going to the POST with get_ai_response
\* and log_complaint left for later
process_and_callback_post_first(url, e) ==
  LET job == jobs[url]
  IN /\ job.pc = "scheduled"
     /\ jobs' = [jobs EXCEPT ![url] = [job EXCEPT !.pc = "posting", !.text = e.ai_text]]
     /\ cleared' = DictDel(cleared, job.user_id)
     /\ last' = [Quiet EXCEPT !.op = "job", !.user_id = job.user_id,
                              !.user_message = job.user_message, !.callback_url = url]
     /\ UNCHANGED <<chat_history, complaint_log, paused_users, processed, resumed>>

\* the task up to its awaited POST: get_ai_response, log_complaint and the
\* callback payload
process_and_callback(url, e) ==
  LET job == jobs[url]
      r == get_ai_response(chat_history, job.user_message, job.user_id, e)
  IN /\ job.pc = "scheduled"
     /\ chat_history' = r.history
     /\ complaint_log' = log_complaint(complaint_log, e.log_write, job.user_id,
                                       job.user_message, r.result.text, r.result.is_urgent)
     /\ jobs' = [jobs EXCEPT ![url] = [job EXCEPT !.pc = "posting", !.text = r.result.text]]
     /\ cleared' = DictDel(cleared, job.user_id)
     /\ last' = [Quiet EXCEPT !.op = "job", !.user_id = job.user_id,
                              !.user_message = job.user_message, !.callback_url = url,
                              !.gen = IF e.generation THEN "ok" ELSE "failed",
                              !.ai = r.result, !.messages = r.messages,
                              !.failed = Failed(e)]
     /\ UNCHANGED <<paused_users, processed, resumed>>

\* http_client.post in a loop that posts again after a failure
callback_post_retry(url, postOk) ==
  LET job == jobs[url]
  IN /\ job.pc = "posting"
     /\ jobs' = [jobs EXCEPT ![url] = IF postOk THEN DoneJob
                                      ELSE [job EXCEPT !.posts = job.posts + 1]]
     /\ last' = [Quiet EXCEPT !.op = "push", !.user_id = job.user_id,
                              !.user_message = job.user_message, !.callback_url = url,
                              !.outputs = IF postOk THEN << job.text >> ELSE <<>>,
                              !.failed = Failed([post |-> postOk])]
     /\ UNCHANGED <<chat_history, complaint_log, paused_users, processed, cleared, resumed>>

\* the outcome of http_client.post: the payload reaches the callback
\* address, or the call raises and the except branch logs it
callback_post(url, postOk) ==
  LET job == jobs[url]
  IN /\ job.pc = "posting"
     /\ jobs' = [jobs EXCEPT ![url] = DoneJob]
     /\ last' = [Quiet EXCEPT !.op = "push", !.user_id = job.user_id,
                              !.user_message = job.user_message, !.callback_url = url,
                              !.outputs = IF postOk THEN << job.text >> ELSE <<>>,
                              !.failed = Failed([post |-> postOk])]
     /\ UNCHANGED <<chat_history, complaint_log, paused_users, processed, cleared, resumed>>

(* -------------------------- operator surface -------------------------- *)

\* a sender's record in the paused-user store, as a sequence of none or one
StoredRecord(file, user_id) == IF user_id \in DOMAIN file THEN << file[user_id] >> ELSE <<>>

\* GET /admin/paused writing back what it loaded
get_paused_users_saving(loadOk) ==
  /\ paused_users' = save_paused_users(paused_users, load_paused_users(paused_users, loadOk), TRUE)
  /\ last' = [Quiet EXCEPT !.op = "get_paused",
                           !.listing = load_paused_users(paused_users, loadOk),
                           !.failed = Failed([paused_load |-> loadOk])]
  /\ UNCHANGED <<chat_history, complaint_log, jobs, processed, cleared, resumed>>

\* GET /admin/paused
get_paused_users(loadOk) ==
  /\ last' = [Quiet EXCEPT !.op = "get_paused",
                           !.listing = load_paused_users(paused_users, loadOk),
                           !.failed = Failed([paused_load |-> loadOk])]
  /\ UNCHANGED <<chat_history, complaint_log, paused_users, jobs, processed, cleared, resumed>>

\* POST /admin/pause/{user_id}; listing holds the sender's record as it was
\* stored before the call
pause_user_bot(user_id, loadOk, saveOk, now) ==
  /\ paused_users' = pause_user(paused_users, loadOk, saveOk, user_id, now)
  /\ resumed' = resumed \ {user_id}
  /\ last' = [Quiet EXCEPT !.op = "pause", !.user_id = user_id,
                           !.listing = StoredRecord(paused_users, user_id),
                           !.failed = Failed([paused_load |-> loadOk, paused_save |-> saveOk])]
  /\ UNCHANGED <<chat_history, complaint_log, jobs, processed, cleared>>

\* POST /admin/resume/{user_id}; listing holds the sender's record as it was
\* stored before the call
resume_user_bot(user_id, loadOk, saveOk) ==
  /\ paused_users' = resume_user(paused_users, loadOk, saveOk, user_id)
  /\ resumed' = IF user_id \in DOMAIN paused_users
                THEN resumed \cup {user_id}
                ELSE resumed
  /\ last' = [Quiet EXCEPT !.op = "resume", !.user_id = user_id,
                           !.listing = StoredRecord(paused_users, user_id),
                           !.failed = Failed([paused_load |-> loadOk, paused_save |-> saveOk])]
  /\ UNCHANGED <<chat_history, complaint_log, jobs, processed, cleared>>

\* the filter of get_urgent_complaints
UrgentLogs(logs) == SelectSeq(logs, LAMBDA log : log.is_urgent)

\* GET /admin/logs; a failed read returns {"error": ...}
get_complaint_logs(readOk) ==
  /\ last' = [Quiet EXCEPT !.op = "get_logs",
                           !.total = IF readOk THEN Len(complaint_log) ELSE 0,
                           !.listing = IF readOk THEN complaint_log ELSE <<>>,
                           !.failed = IF readOk THEN {} ELSE {"log_read"}]
  /\ UNCHANGED <<chat_history, complaint_log, paused_users, jobs, processed, cleared, resumed>>

\* GET /admin/urgent
get_urgent_complaints(readOk) ==
  /\ last' = [Quiet EXCEPT !.op = "get_urgent",
                           !.total = IF readOk THEN Len(UrgentLogs(complaint_log)) ELSE 0,
                           !.listing = IF readOk THEN UrgentLogs(complaint_log) ELSE <<>>,
                           !.failed = IF readOk THEN {} ELSE {"log_read"}]
  /\ UNCHANGED <<chat_history, complaint_log, paused_users, jobs, processed, cleared, resumed>>

\* GET /admin/history: total_users and each user's total_turns
get_chat_history(loadOk) ==
  LET history == load_chat_history(chat_history, loadOk)
  IN /\ last' = [Quiet EXCEPT !.op = "get_history",
                              !.total = Cardinality(DOMAIN history),
                              !.listing = [uid \in DOMAIN history |-> Len(history[uid])],
                              !.failed = Failed([history_load |-> loadOk])]
     /\ UNCHANGED <<chat_history, complaint_log, paused_users, jobs, processed, cleared, resumed>>

\* GET /admin/history/{user_id}: total_turns and history
get_user_chat_history(user_id, loadOk) ==
  LET user_history == DictGet(load_chat_history(chat_history, loadOk), user_id, <<>>)
  IN /\ last' = [Quiet EXCEPT !.op = "get_user_history", !.user_id = user_id,
                              !.total = Len(user_history),
                              !.listing = user_history,
                              !.failed = Failed([history_load |-> loadOk])]
     /\ UNCHANGED <<chat_history, complaint_log, paused_users, jobs, processed, cleared, resumed>>

\* the file after clear_user_chat_history
ClearedHistory(file, loadOk, saveOk, user_id) ==
  LET history == load_chat_history(file, loadOk)
  IN IF user_id \in DOMAIN history
     THEN save_chat_history(file, DictDel(history, user_id), saveOk)
     ELSE file

\* DELETE /admin/history/{user_id}; listing holds the turns stored before
\* the call, total is 1 when the reply says they were deleted
clear_user_chat_history(user_id, loadOk, saveOk) ==
  /\ chat_history' = ClearedHistory(chat_history, loadOk, saveOk, user_id)
  /\ cleared' = DictSet(cleared, user_id, Len(DictGet(chat_history, user_id, <<>>)))
  /\ last' = [Quiet EXCEPT !.op = "clear_history", !.user_id = user_id,
                           !.total = IF user_id \in DOMAIN load_chat_history(chat_history, loadOk)
                                     THEN 1 ELSE 0,
                           !.listing = DictGet(chat_history, user_id, <<>>),
                           !.failed = Failed([history_load |-> loadOk, history_save |-> saveOk])]
  /\ UNCHANGED <<complaint_log, paused_users, jobs, processed, resumed>>

\* GET /health
health_check ==
  /\ last' = [Quiet EXCEPT !.op = "health"]
  /\ UNCHANGED <<chat_history, complaint_log, paused_users, jobs, processed, cleared, resumed>>

(* ---------------------------- environments ---------------------------- *)

\* the outcomes of a call of kind k that can raise: TRUE when it returns.
\* F holds the kinds of call that raise in the specification at hand.  A
\* load opens its file only when os.path.exists says so, and a load that
\* raises returns what an empty store holds, so a load's two outcomes are
\* drawn only for a store that holds something.
Outcomes(F, k, canRaise) == IF k \in F /\ canRaise THEN BOOLEAN ELSE {TRUE}

\* what the environment can do during one get_ai_response and log_complaint
GenEnvs(F, texts) ==
  LET stored == chat_history # EmptyDict
      all == [context_load : Outcomes(F, "context_load", stored),
              generation : Outcomes(F, "generation", TRUE),
              ai_text : texts,
              history_load : Outcomes(F, "history_load", stored),
              history_save : Outcomes(F, "history_save", TRUE),
              log_write : Outcomes(F, "log_write", TRUE)]
      any == CHOOSE t \in texts : TRUE
  IN {e \in all : ~e.generation => (e.ai_text = any /\ e.history_load /\ e.history_save)}

\* the request bodies the platform sends for senders and utts: the
\* utterance, the id and the callback address each present or absent, a
\* callback address being a fresh one
Bodies(senders, utts) ==
  LET full == [utterance : utts, id : senders, callbackUrl : FreshUrls]
                \cup [utterance : utts, id : senders]
      drops(b) == {drop \in SUBSET {"utterance", "id"} :
                     /\ "utterance" \in drop => b.utterance = <<>>
                     /\ "id" \in drop => b.id = "unknown"}
  IN UNION {{[k \in (DOMAIN b) \ drop |-> b[k]] : drop \in drops(b)} : b \in full}

Complaint(senders, utts, texts, F) ==
  \E body \in Bodies(senders, utts) :
    \E pausedLoadOk \in Outcomes(F, "paused_load", BodyUtterance(body) # <<>> /\ paused_users # EmptyDict) :
      IF Branch(BodyUtterance(body), is_user_paused(paused_users, pausedLoadOk, BodyUserId(body)),
                BodyCallbackUrl(body)) = "direct"
      THEN \E e \in GenEnvs(F, texts) : kakao_skill_complaint(body, pausedLoadOk, e)
      ELSE kakao_skill_complaint(body, pausedLoadOk, NoGen)

\* envelopes of the wrong shape: a body that is no JSON object, a
\* userRequest that is null, a user that is null beside an utterance
MalformedBodies ==
  {[malformed |-> "body"], [malformed |-> "userRequest"],
   [malformed |-> "user", utterance |-> <<"hello">>]}

BadComplaint ==
  \E body \in MalformedBodies : kakao_skill_complaint(body, TRUE, NoGen)

JobRun(texts, F) ==
  \E url \in CallbackUrls : \E e \in GenEnvs(F, texts) : process_and_callback(url, e)

JobPost(F) ==
  \E url \in CallbackUrls : \E postOk \in Outcomes(F, "post", TRUE) : callback_post(url, postOk)

Pause(senders, times, F) ==
  \E user_id \in senders, now \in times :
    \E loadOk \in Outcomes(F, "paused_load", paused_users # EmptyDict) :
      \E saveOk \in Outcomes(F, "paused_save", TRUE) :
        pause_user_bot(user_id, loadOk, saveOk, now)

Resume(senders, F) ==
  \E user_id \in senders :
    \E loadOk \in Outcomes(F, "paused_load", paused_users # EmptyDict) :
      \E saveOk \in Outcomes(F, "paused_save", TRUE) :
        resume_user_bot(user_id, loadOk, saveOk)

ClearHistory(senders, F) ==
  \E user_id \in senders :
    \E loadOk \in Outcomes(F, "history_load", chat_history # EmptyDict) :
      \E saveOk \in Outcomes(F, "history_save", TRUE) :
        clear_user_chat_history(user_id, loadOk, saveOk)

GetPaused(F) ==
  \E loadOk \in Outcomes(F, "paused_load", paused_users # EmptyDict) : get_paused_users(loadOk)

GetLogs(F) ==
  \E readOk \in Outcomes(F, "log_read", complaint_log # <<>>) : get_complaint_logs(readOk)

GetUrgent(F) ==
  \E readOk \in Outcomes(F, "log_read", complaint_log # <<>>) : get_urgent_complaints(readOk)

GetHistory(F) ==
  \E loadOk \in Outcomes(F, "history_load", chat_history # EmptyDict) : get_chat_history(loadOk)

GetUserHistory(senders, F) ==
  \E user_id \in senders :
    \E loadOk \in Outcomes(F, "history_load", chat_history # EmptyDict) :
      get_user_chat_history(user_id, loadOk)

(* --------------------------- specifications --------------------------- *)

\* utterances and generated texts of the specifications that are about
\* the control flow rather than the texts
PlainUtterances == {<<>>, <<"hello">>}
PlainTexts == {<<"ok">>}

\* Spec: the relay, the deferred jobs and the operator's pause and resume,
\* with the paused-user store and the callback POST failing at will
PauseFaults == {"paused_load", "paused_save", "post"}

Next ==
  \/ Complaint(Senders, PlainUtterances, PlainTexts, PauseFaults)
  \/ JobRun(PlainTexts, PauseFaults)
  \/ JobPost(PauseFaults)
  \/ Pause(Senders, OneTime, PauseFaults)
  \/ Resume(Senders, PauseFaults)
  \/ GetPaused(PauseFaults)

Spec == Init /\ [][Next]_vars

\* SpecPause: the operator's pause, resume and listing alone, with the
\* clock advancing between calls and the paused-user store failing at will
NextPause ==
  \/ Pause(Senders, Times, PauseFaults)
  \/ Resume(Senders, PauseFaults)
  \/ GetPaused(PauseFaults)

SpecPause == Init /\ [][NextPause]_vars

\* SpecStore: one sender's requests, also malformed ones, the deferred
\* jobs, the operator's delete and the reports, with generation, the history store, the log
\* and the callback POST failing at will
StoreSenders == {"user1"}
StoreFaults ==
  {"context_load", "generation", "history_load", "history_save", "log_write", "log_read", "post"}

NextStore ==
  \/ Complaint(StoreSenders, PlainUtterances, PlainTexts, StoreFaults)
  \/ JobRun(PlainTexts, StoreFaults)
  \/ JobPost(StoreFaults)
  \/ BadComplaint
  \/ ClearHistory(StoreSenders, StoreFaults)
  \/ GetUserHistory(StoreSenders, StoreFaults)
  \/ GetHistory(StoreFaults)
  \/ GetLogs(StoreFaults)
  \/ GetUrgent(StoreFaults)
  \/ health_check

SpecStore == Init /\ [][NextStore]_vars

\* SpecFair: one sender's requests and the deferred jobs, with generation,
\* the history write, the log write and the callback POST failing at will,
\* on an event loop that runs every task it holds: a task made by
\* asyncio.create_task is run, and the POST it awaits returns or raises
\* within its timeout
FairFaults == {"generation", "history_save", "log_write", "post"}

NextFair ==
  \/ Complaint(StoreSenders, PlainUtterances, PlainTexts, FairFaults)
  \/ JobRun(PlainTexts, FairFaults)
  \/ JobPost(FairFaults)

JobFairness ==
  \A url \in CallbackUrls :
    /\ WF_vars(\E e \in GenEnvs(FairFaults, PlainTexts) : process_and_callback(url, e))
    /\ WF_vars(\E postOk \in Outcomes(FairFaults, "post", TRUE) : callback_post(url, postOk))

SpecFair == Init /\ [][NextFair]_vars /\ JobFairness

\* SpecLog: two senders' requests, the deferred jobs and the operator's
\* delete with the three stores working, and generation and the callback
\* POST failing at will
LogFaults == {"generation", "post"}

NextLog ==
  \/ Complaint(Senders, PlainUtterances, PlainTexts, LogFaults)
  \/ JobRun(PlainTexts, LogFaults)
  \/ JobPost(LogFaults)
  \/ ClearHistory(Senders, LogFaults)

SpecLog == Init /\ [][NextLog]_vars

\* SpecReads: one sender's requests, the operator's pause and every listing
\* and reporting endpoint, with the reads of the three stores failing at will
ReadFaults == {"paused_load", "history_load", "log_read"}

NextReads ==
  \/ Complaint(StoreSenders, PlainUtterances, PlainTexts, ReadFaults)
  \/ JobRun(PlainTexts, ReadFaults)
  \/ JobPost(ReadFaults)
  \/ Pause(StoreSenders, OneTime, ReadFaults)
  \/ GetPaused(ReadFaults)
  \/ GetLogs(ReadFaults)
  \/ GetUrgent(ReadFaults)
  \/ GetHistory(ReadFaults)
  \/ GetUserHistory(StoreSenders, ReadFaults)
  \/ health_check

SpecReads == Init /\ [][NextReads]_vars

\* SpecContext: one request of a sender whose stored history holds up to
\* MaxHistory turns, with every utterance and every generated text
ContextSender == "user1"
ContextFaults == {"context_load", "generation", "history_load", "log_write"}

\* the turns earlier requests of the sender have stored
StoredTurns == [user : Utterances \ {<<>>}, assistant : PlainTexts]

Histories == UNION {[1..n -> StoredTurns] : n \in 1..MaxHistory}

\* the log entries of the requests that stored the turns of history
RECURSIVE LogOf(_, _)
LogOf(user_id, history) ==
  IF history = <<>> THEN <<>>
  ELSE log_complaint(LogOf(user_id, SubSeq(history, 1, Len(history) - 1)), TRUE, user_id,
                     history[Len(history)].user, history[Len(history)].assistant,
                     IsUrgent(history[Len(history)].assistant, history[Len(history)].user))

InitContext ==
  /\ chat_history \in {EmptyDict} \cup {DictSet(EmptyDict, ContextSender, h) : h \in Histories}
  /\ complaint_log = LogOf(ContextSender, DictGet(chat_history, ContextSender, <<>>))
  /\ paused_users = EmptyDict
  /\ jobs = [u \in CallbackUrls |-> IdleJob]
  /\ processed = MaxRequests - 1
  /\ cleared = EmptyDict
  /\ resumed = {}
  /\ last = Quiet

NextContext ==
  \/ Complaint({ContextSender}, Utterances, AiTexts, ContextFaults)
  \/ JobRun(AiTexts, ContextFaults)
  \/ JobPost(ContextFaults)

SpecContext == InitContext /\ [][NextContext]_vars

(* ------------------------------- claims ------------------------------- *)

\* stored turns of all senders
RECURSIVE SumTurns(_, _)
SumTurns(history, users) ==
  IF users = {} THEN 0
  ELSE LET u == CHOOSE x \in users : TRUE
       IN Len(history[u]) + SumTurns(history, users \ {u})

TotalTurns(history) == SumTurns(history, DOMAIN history)

\* the operation performed last answered a sender or pushed to a callback address
Replied == last.op \in {"complaint", "push"}

\* C1: a sender who is in the paused set receives no non-empty reply,
\* neither inline from POST /skill/complaint nor pushed by a deferred job,
\* whatever the utterance is.
C1_PausedSenderGetsNoReply ==
  (Replied /\ last.user_id \in DOMAIN paused_users) => last.outputs = <<>>

C3_AtMostOnePerRequest ==
  /\ [](Len(complaint_log) <= processed /\ TotalTurns(chat_history) <= processed)
  /\ [][/\ Len(complaint_log') <= Len(complaint_log) + 1
        /\ TotalTurns(chat_history') <= TotalTurns(chat_history) + 1
        /\ (Len(complaint_log') > Len(complaint_log) \/ TotalTurns(chat_history') > TotalTurns(chat_history))
             => last'.op \in {"complaint", "job"}]_vars

\* C3's case: every request of the run processed, logged and recorded,
\* one of them by a deferred job.
C3_Witness ==
  /\ processed = MaxRequests
  /\ Len(complaint_log) = processed
  /\ TotalTurns(chat_history) = processed
  /\ last.op = "job"

\* the operation performed last ran get_ai_response
Generated == last.op \in {"complaint", "job"} /\ last.gen # "none"

HasKeyword(user_message) == \E keyword \in KEYWORDS : Contains(user_message, keyword)

\* C4: when the utterance of a processed request contains a keyword, the
\* urgency flag returned by reply generation, and recorded in the log
\* entry, is true, whether the generation call succeeds or fails.
C4_KeywordIsUrgent ==
  (Generated /\ HasKeyword(last.user_message))
    => /\ last.ai.is_urgent
       /\ "log_write" \notin last.failed => complaint_log[Len(complaint_log)].is_urgent

\* C5: when generation fails, reply generation returns the fixed apology
\* with urgency false; the synchronous path returns the apology inline and
\* the deferred job goes on to push the apology to the callback address.
C5_FallbackReply ==
  /\ []((Generated /\ last.gen = "failed")
          => /\ last.ai = [text |-> APOLOGY_TEXT, is_urgent |-> FALSE, user_id |-> last.user_id]
             /\ last.op = "complaint" => last.outputs = << APOLOGY_TEXT >>
             /\ last.op = "job" => /\ jobs[last.callback_url].pc = "posting"
                                   /\ jobs[last.callback_url].text = APOLOGY_TEXT)
  /\ [][\A url \in CallbackUrls :
          (jobs[url].pc = "posting" /\ jobs'[url].pc = "done")
            => /\ last'.op = "push"
               /\ "post" \notin last'.failed => last'.outputs = << jobs[url].text >>]_vars

\* C5's case: a deferred job whose generation failed has pushed the apology.
C5_Witness ==
  /\ last.op = "push"
  /\ last.outputs = << APOLOGY_TEXT >>
  /\ complaint_log # <<>>
  /\ complaint_log[Len(complaint_log)].response = APOLOGY_TEXT

\* C6: the context given to a generation call holds at most MAX_AI_CONTEXT
\* prior turns: at most 10 prior messages and the new user message.
C6_ContextCap ==
  Generated
    => /\ Len(last.messages) <= 2 * MAX_AI_CONTEXT + 1
       /\ Len(last.messages) >= 1
       /\ last.messages[Len(last.messages)] = [role |-> "user", content |-> last.user_message]

\* C6's case: a sender with more than MAX_AI_CONTEXT stored turns is answered.
C6_Witness ==
  /\ Generated
  /\ last.gen = "ok"
  /\ Len(DictGet(chat_history, last.user_id, <<>>)) > MAX_AI_CONTEXT + 1
  /\ Len(last.messages) = 2 * MAX_AI_CONTEXT + 1

\* C7: after an operator pause followed by an operator resume of the same
\* sender, the sender's next non-empty request is answered normally, with a
\* generated reply and the history and the log written (or the job
\* scheduled and the wait text returned), as if the sender had never been
\* paused; and a resume of a sender who is not in the paused set leaves the
\* paused-user store unchanged.
C7_ResumeRestoresReplies ==
  [][/\ (last'.op = "complaint" /\ last'.user_id \in resumed /\ last'.user_message # <<>>)
        => \/ /\ last'.useCallback
              /\ last'.outputs = << WAIT_TEXT >>
              /\ jobs'[last'.callback_url].pc = "scheduled"
           \/ /\ ~last'.useCallback
              /\ last'.gen = "ok"
              /\ last'.outputs = << last'.ai.text >>
              /\ Len(complaint_log') = Len(complaint_log) + 1
              /\ TotalTurns(chat_history') = TotalTurns(chat_history) + 1
     /\ (last'.op = "resume" /\ last'.user_id \notin DOMAIN paused_users)
        => paused_users' = paused_users]_vars

\* C8: pause and resume are idempotent per sender: a pause of a sender who
\* is already stored as paused leaves that sender's stored pause state as
\* it was, and a resume of a sender who is not stored as paused leaves it
\* as it was.
C8_Idempotent ==
  [][/\ (last'.op = "pause" /\ last'.user_id \in DOMAIN paused_users)
        => /\ last'.user_id \in DOMAIN paused_users'
           /\ paused_users'[last'.user_id] = paused_users[last'.user_id]
     /\ (last'.op = "resume" /\ last'.user_id \notin DOMAIN paused_users)
        => last'.user_id \notin DOMAIN paused_users']_vars

\* C8 as amended: a pause of a sender who is already in the paused set
\* leaves the sender in the set, with paused_at either kept or replaced by
\* the time of the new call, and a resume of a sender who is not in the
\* paused set leaves the paused-user store unchanged.
C8_IdempotentMembership ==
  [][/\ (last'.op = "pause" /\ last'.user_id \in DOMAIN paused_users)
        => last'.user_id \in DOMAIN paused_users'
     /\ (last'.op = "resume" /\ last'.user_id \notin DOMAIN paused_users)
        => paused_users' = paused_users]_vars

\* C8's case: a sender who was already stored as paused was paused again,
\* and the second call replaced paused_at.
C8_Witness ==
  /\ last.op = "pause"
  /\ last.listing # <<>>
  /\ last.user_id \in DOMAIN paused_users
  /\ paused_users[last.user_id].paused_at # last.listing[1].paused_at

\* C9: a sender's pause state changes only by an operator action on that
\* sender: a sender enters the paused set only in a pause of that sender
\* and leaves it only in a resume of that sender; message handling, reads,
\* load failures and a pause or resume of another sender never change it.
C9_OnlyOperatorChangesPause ==
  [][\A s \in Senders :
       /\ (s \notin DOMAIN paused_users /\ s \in DOMAIN paused_users')
          => (last'.op = "pause" /\ last'.user_id = s)
       /\ (s \in DOMAIN paused_users /\ s \notin DOMAIN paused_users')
          => (last'.op = "resume" /\ last'.user_id = s)]_vars

\* C10: after DELETE /admin/history/{user_id}, a read of that sender's
\* history made before any new request of the sender is processed returns
\* an empty sequence and total_turns 0, however many turns were stored.
C10_ReadAfterDeleteIsEmpty ==
  (last.op = "get_user_history" /\ last.user_id \in DOMAIN cleared)
    => (last.total = 0 /\ last.listing = <<>>)

\* s is an initial part of t
IsPrefix(s, t) == Len(s) <= Len(t) /\ SubSeq(t, 1, Len(s)) = s

\* C11: stored history is append-only: in every step other than an operator
\* delete for that sender, each sender's stored turns before the step are
\* a prefix of the sender's stored turns after it, also when the history
\* store fails to load or to save.
C11_HistoryAppendOnly ==
  [][\A s \in DOMAIN chat_history :
       \/ (last'.op = "clear_history" /\ last'.user_id = s)
       \/ (s \in DOMAIN chat_history' /\ IsPrefix(chat_history[s], chat_history'[s]))]_vars

\* the log holds an entry of this request with this reply
Logged(user_id, user_message, text) ==
  \E i \in DOMAIN complaint_log :
    /\ complaint_log[i].user_id = user_id
    /\ complaint_log[i].message = user_message
    /\ complaint_log[i].response = text

\* the history holds a turn of this request with this reply
Recorded(user_id, user_message, text) ==
  /\ user_id \in DOMAIN chat_history
  /\ \E i \in DOMAIN chat_history[user_id] :
       chat_history[user_id][i] = [user |-> user_message, assistant |-> text]

ScheduledJobs == {u \in CallbackUrls : jobs[u].pc = "scheduled"}

C14_OnePushNoRetry ==
  /\ [](\A u \in CallbackUrls : jobs[u].posts <= 1)
  /\ [][/\ last'.op = "push"
           => /\ jobs[last'.callback_url].posts = 0
              /\ jobs'[last'.callback_url].pc = "done"
              /\ jobs'[last'.callback_url].posts = 1
              /\ "post" \in last'.failed => last'.outputs = <<>>
              /\ UNCHANGED <<chat_history, complaint_log>>
        /\ \A u \in CallbackUrls : jobs[u].pc = "done" => jobs'[u] = jobs[u]]_vars

\* C14's case: a job stored its turn and its entry, and its POST failed.
C14_Witness ==
  /\ last.op = "push"
  /\ "post" \in last.failed
  /\ jobs[last.callback_url].pc = "done"
  /\ \E text \in PlainTexts :
       /\ Logged(last.user_id, last.user_message, text)
       /\ Recorded(last.user_id, last.user_message, text)

\* the store accesses that persist a request's turn and entry
PersistKinds == {"history_load", "history_save", "log_write"}

\* C15: a failure to persist the history turn, the log entry or both never
\* prevents the reply: when generation succeeded and a store access
\* failed, the synchronous reply is the generated text, the job goes to
\* its POST with the generated text, and a POST that succeeds delivers the
\* job's text as it is.
C15_PersistFailureStillReplies ==
  /\ []((last.gen = "ok" /\ last.failed \cap PersistKinds # {})
          => /\ last.ai.text \in PlainTexts
             /\ last.op = "complaint" => last.outputs = << last.ai.text >>
             /\ last.op = "job" => /\ jobs[last.callback_url].pc = "posting"
                                   /\ jobs[last.callback_url].text = last.ai.text)
  /\ [][(last'.op = "push" /\ last'.failed = {})
          => last'.outputs = << jobs[last'.callback_url].text >>]_vars

\* C15's case: a synchronous request whose history write and log write both
\* failed got the generated text.
C15_Witness ==
  /\ last.op = "complaint"
  /\ last.gen = "ok"
  /\ {"history_save", "log_write"} \subseteq last.failed
  /\ last.outputs = << last.ai.text >>
  /\ last.ai.text \in PlainTexts

\* C16: every request to POST /skill/complaint ends with a response in the
\* platform shape, a template with no output or one text, and never with
\* an unhandled error, for every envelope and every failure of generation
\* and the stores.
C16_AlwaysAResponse ==
  last.op = "complaint"
    => /\ ~last.error
       /\ Len(last.outputs) <= 1

\* the listing and reporting operations
ReadOps == {"get_paused", "get_logs", "get_urgent", "get_history", "get_user_history", "health"}

\* C17: the paused list, the full log, the urgent log, the history summary,
\* a sender's history and the health check are pure reads: each leaves the
\* complaint log, the chat history and the paused-user store unchanged,
\* also when its read of a store fails.
C17_ReadsArePure ==
  [][last'.op \in ReadOps => UNCHANGED <<chat_history, complaint_log, paused_users>>]_vars

\* C17's case: the paused list was read with its load failing while all
\* three stores hold records.
C17_Witness ==
  /\ last.op = "get_paused"
  /\ "paused_load" \in last.failed
  /\ paused_users # EmptyDict
  /\ chat_history # EmptyDict
  /\ complaint_log # <<>>

Min(a, b) == IF a <= b THEN a ELSE b

\* the last min(n, MAX_AI_CONTEXT) of the n turns, each as its user message
\* and its assistant reply, and the new utterance as the final user message
ExpectedContext(turns, user_message) ==
  LET n == Len(turns)
      k == Min(n, MAX_AI_CONTEXT)
  IN [i \in 1..(2 * k + 1) |->
        IF i = 2 * k + 1 THEN [role |-> "user", content |-> user_message]
        ELSE IF i % 2 = 1 THEN [role |-> "user", content |-> turns[n - k + (i + 1) \div 2].user]
        ELSE [role |-> "assistant", content |-> turns[n - k + i \div 2].assistant]]

\* C18: for a sender with n stored turns the context submitted to
\* generation is exactly the last min(n, 5) stored turns in append order,
\* each as its user message and its assistant reply, followed by the new
\* utterance; the older turns stay in storage; with no stored turn the
\* context is the new message alone.
C18_ExactContext ==
  [][(last'.op \in {"complaint", "job"} /\ last'.gen = "ok")
       => LET turns == DictGet(chat_history, last'.user_id, <<>>)
          IN /\ last'.messages = ExpectedContext(turns, last'.user_message)
             /\ IsPrefix(turns, DictGet(chat_history', last'.user_id, <<>>))]_vars

\* the same for a request whose two reads of the history store succeed
C18_ExactContextWhenRead ==
  [][(last'.op \in {"complaint", "job"} /\ last'.gen = "ok"
        /\ last'.failed \cap {"context_load", "history_load"} = {})
       => LET turns == DictGet(chat_history, last'.user_id, <<>>)
          IN /\ last'.messages = ExpectedContext(turns, last'.user_message)
             /\ IsPrefix(turns, DictGet(chat_history', last'.user_id, <<>>))]_vars

\* C19: when generation succeeds the urgency flag is true exactly when the
\* generated text contains the marker or the utterance contains a keyword,
\* and the log entry written for the request carries that flag, with
\* status "received" when it is true and "auto" when it is false.
C19_UrgencyIsUnion ==
  (Generated /\ last.gen = "ok")
    => LET flag == Contains(last.ai.text, MARKER) \/ HasKeyword(last.user_message)
           entry == complaint_log[Len(complaint_log)]
       IN /\ last.ai.is_urgent = flag
          /\ "log_write" \notin last.failed
               => /\ complaint_log # <<>>
                  /\ entry.user_id = last.user_id
                  /\ entry.message = last.user_message
                  /\ entry.response = last.ai.text
                  /\ entry.is_urgent = flag
                  /\ entry.status = (IF flag THEN "received" ELSE "auto")

\* C19's case: an utterance with a keyword got a text without the marker,
\* and its entry was written.
C19_Witness ==
  /\ Generated
  /\ last.gen = "ok"
  /\ HasKeyword(last.user_message)
  /\ ~Contains(last.ai.text, MARKER)
  /\ "log_write" \notin last.failed
  /\ complaint_log[Len(complaint_log)].status = "received"

\* C20: a non-empty request of a sender who is in the paused set when the
\* handler checks has no side effects: it returns the empty output set,
\* calls no generation, appends nothing to the history or the log and
\* schedules no job, also when it carries a callback address.
C20_PausedRequestNoSideEffects ==
  [][(/\ last'.op = "complaint"
      /\ last'.user_message # <<>>
      /\ last'.user_id \in DOMAIN paused_users)
       => /\ last'.outputs = <<>>
          /\ last'.gen = "none"
          /\ ~last'.useCallback
          /\ UNCHANGED <<chat_history, complaint_log, paused_users, jobs, processed>>]_vars

\* the same for a request whose read of the paused-user store succeeds
C20_NoSideEffectsWhenRead ==
  [][(/\ last'.op = "complaint"
      /\ last'.user_message # <<>>
      /\ last'.user_id \in DOMAIN paused_users
      /\ "paused_load" \notin last'.failed)
       => /\ last'.outputs = <<>>
          /\ last'.gen = "none"
          /\ ~last'.useCallback
          /\ UNCHANGED <<chat_history, complaint_log, paused_users, jobs, processed>>]_vars

\* C21: on an event loop that runs its tasks, every job scheduled by an
\* acknowledged callback request finishes: it comes to its POST with the
\* generated text or the apology, and the POST delivers it or raises and is
\* logged; no job stays scheduled or at its POST forever, whatever
\* generation, store or delivery failures occur.
C21_JobsFinish ==
  \A url \in CallbackUrls :
    /\ (jobs[url].pc = "scheduled") ~> (jobs[url].pc = "posting")
    /\ (jobs[url].pc = "posting") ~> (jobs[url].pc = "done")

\* C21's case: a job whose generation failed has finished with its POST
\* failing too.
C21_Witness ==
  /\ last.op = "push"
  /\ last.failed = {"post"}
  /\ last.outputs = <<>>
  /\ jobs[last.callback_url].pc = "done"
  /\ \E i \in DOMAIN complaint_log : complaint_log[i].response = APOLOGY_TEXT

\* the log entries of a sender
EntriesOf(user_id) == {i \in DOMAIN complaint_log : complaint_log[i].user_id = user_id}

\* C22: with the stores working, every turn stored in a sender's history
\* has a log entry with the same sender, utterance and reply text, so a
\* sender's stored turns are never more than the sender's log entries; and
\* no stored turn carries the apology text, which a request whose
\* generation failed writes to the log alone.
C22_TurnsHaveEntries ==
  \A s \in DOMAIN chat_history :
    /\ Len(chat_history[s]) <= Cardinality(EntriesOf(s))
    /\ \A i \in DOMAIN chat_history[s] :
         /\ Logged(s, chat_history[s][i].user, chat_history[s][i].assistant)
         /\ chat_history[s][i].assistant # APOLOGY_TEXT

\* C22's case: a sender with a stored turn also has an entry of a request
\* whose generation failed, with the apology text and urgency false, and so
\* more entries than turns.
C22_Witness ==
  \E s \in DOMAIN chat_history :
    /\ chat_history[s] # <<>>
    /\ Len(chat_history[s]) < Cardinality(EntriesOf(s))
    /\ \E i \in EntriesOf(s) :
         /\ complaint_log[i].response = APOLOGY_TEXT
         /\ ~complaint_log[i].is_urgent
         /\ ~Recorded(s, complaint_log[i].message, APOLOGY_TEXT)

=============================================================================
